---- MODULE Spec2Model ----
(***************************************************************************)
(* Model of src/main.py: a Streamlit script that extracts a video id from  *)
(* a URL, fetches an English transcript, asks a completion provider for an *)
(* article draft and renders it.  One script run is the sequence           *)
(* dependency check -> authentication -> UI -> processing logic.           *)
(*                                                                         *)
(* Text is a sequence of pieces.  Where the code inspects the content of a *)
(* text (the regex of get_video_id, the `"Error:" in transcript` test) the *)
(* pieces are single characters; a literal that is only displayed is one   *)
(* piece.                                                                  *)
(***************************************************************************)
EXTENDS Integers, Sequences, FiniteSets

VARIABLES
    pc,              \* position of the script run
    library,         \* environment: "ok" | "outdated" (youtube-transcript-api)
    secrets,         \* environment: "nofile" | "nokey" | "present"
    session_url,     \* environment: the text the user left in the text input
    session_btn,     \* environment: whether this run was triggered by the button
    api_key,         \* main.py:30
    youtube_url,     \* main.py:120
    generate_btn,    \* main.py:121
    video_id,        \* main.py:128
    transcript_list, \* main.py:52, the transcripts the provider listed
    selected,        \* main.py:56/59, the transcript that was chosen
    fragments,       \* main.py:64, what transcript.fetch() returned
    transcript,      \* main.py:134
    request,         \* main.py:99-106, what was sent to the completion provider
    article_draft,   \* main.py:140
    ui,              \* the elements the run has rendered so far, in order
    tkind,           \* history: how the transcript step really ended
    ckind,           \* history: how the completion call really ended
    calls            \* history: how often each stage ran in this script run

vars == <<pc, library, secrets, session_url, session_btn, api_key, youtube_url,
          generate_btn, video_id, transcript_list, selected, fragments,
          transcript, request, article_draft, ui, tkind, ckind, calls>>

----------------------------------------------------------------------------
(* Bounds of the model *)

MaxTranscripts == 3
MaxFragments == 2
MaxTokens == 5

----------------------------------------------------------------------------
(* Text helpers *)

None == <<"<None>">>

Lit(s) == <<s>>

Min(S) == CHOOSE x \in S : \A y \in S : x <= y

\* Python's `sub in s`
Contains(sub, s) ==
    \E i \in 1..(Len(s) - Len(sub) + 1) : SubSeq(s, i, i + Len(sub) - 1) = sub

RECURSIVE Join(_)
\* " ".join(parts)
Join(parts) ==
    IF parts = <<>> THEN <<>>
    ELSE IF Len(parts) = 1 THEN parts[1]
    ELSE parts[1] \o <<" ">> \o Join(Tail(parts))

RECURSIVE Flatten(_)
Flatten(parts) ==
    IF parts = <<>> THEN <<>> ELSE parts[1] \o Flatten(Tail(parts))

----------------------------------------------------------------------------
(* get_video_id, main.py:40-46 *)

IdLen == 11

\* the character class [0-9A-Za-z_-]
IdChars ==
    {"0", "1", "2", "3", "4", "5", "6", "7", "8", "9",
     "A", "B", "C", "D", "E", "F", "G", "H", "I", "J", "K", "L", "M",
     "N", "O", "P", "Q", "R", "S", "T", "U", "V", "W", "X", "Y", "Z",
     "a", "b", "c", "d", "e", "f", "g", "h", "i", "j", "k", "l", "m",
     "n", "o", "p", "q", "r", "s", "t", "u", "v", "w", "x", "y", "z",
     "_", "-"}

\* where the group of (?:v=|\/)([0-9A-Za-z_-]{11}) would start if the
\* pattern is tried at position i; 0 when the alternation does not match there
GroupStart(url, i) ==
    IF i + 1 <= Len(url) /\ url[i] = "v" /\ url[i + 1] = "=" THEN i + 2
    ELSE IF url[i] = "/" THEN i + 1
    ELSE 0


\* the pattern matches at position i (the trailing .* matches anything)
MatchesAt(url, i) ==
    LET g == GroupStart(url, i) IN
        /\ g # 0
        /\ g + IdLen - 1 <= Len(url)
        /\ \A j \in g..(g + IdLen - 1) : url[j] \in IdChars

\* re.search takes the leftmost match; group(1) is returned
get_video_id(url) ==
    LET hits == {i \in 1..Len(url) : MatchesAt(url, i)} IN
        IF hits = {} THEN None
        ELSE LET g == GroupStart(url, Min(hits)) IN SubSeq(url, g, g + IdLen - 1)

----------------------------------------------------------------------------
(* The transcript provider, as get_transcript uses it (main.py:52-64) *)

\* the locale list passed to both find_* calls, in priority order
LanguageCodes == <<"en", "en-AU", "en-GB", "en-US">>

\* locales a video may have captions in
ProviderLocales == {"en", "en-AU", "en-GB", "en-US", "de"}

\* a listed transcript: is it manual or generated, and its locale
Transcripts == [kind : {"manual", "generated"}, lang : ProviderLocales]

NotFound == [kind |-> "none", lang |-> "none"]

NoList == {NotFound}

NoExc == [kind |-> "none", msg |-> <<>>]

\* exception messages the two providers may raise with (str(e))
ExcMessages == {<<>>, <<"t", "i", "m", "e", "o", "u", "t">>}

\* list_transcripts may raise: the identifier is rejected, or the service fails
ListExceptions == [kind : {"IdentifierInvalid", "ProviderError"}, msg : ExcMessages]

\* transcript.fetch() may raise: the service fails
FetchExceptions == [kind : {"ProviderError"}, msg : ExcMessages]

FragmentTexts ==
    { <<"H", "e", "l", "l", "o">>,
      <<"w", "o", "r", "l", "d">>,
      <<"E", "r", "r", "o", "r", ":", " ", "4", "0", "4", " ", "p", "a", "g", "e">> }

\* what fetch() returns: the fragments' text fields, in order
FragmentLists == UNION {[1..n -> FragmentTexts] : n \in 0..MaxFragments}

TranscriptLists == {tl \in SUBSET Transcripts : Cardinality(tl) <= MaxTranscripts}

\* every way the provider can answer one get_transcript call
ProviderBehaviours ==
    [list_exc : ListExceptions, transcripts : {{}}, fetch_exc : {NoExc}, fragments : {<<>>}]
    \cup [list_exc : {NoExc}, transcripts : TranscriptLists,
          fetch_exc : FetchExceptions, fragments : {<<>>}]
    \cup [list_exc : {NoExc}, transcripts : TranscriptLists,
          fetch_exc : {NoExc}, fragments : FragmentLists]

\* TranscriptList._find_transcript: the first code of `codes` for which a
\* transcript of that kind is listed; NotFound stands for NoTranscriptFound
RECURSIVE FindTranscript(_, _, _)
FindTranscript(tl, kind, codes) ==
    IF codes = <<>> THEN NotFound
    ELSE IF [kind |-> kind, lang |-> Head(codes)] \in tl
         THEN [kind |-> kind, lang |-> Head(codes)]
         ELSE FindTranscript(tl, kind, Tail(codes))

find_manually_created_transcript(tl, codes) == FindTranscript(tl, "manual", codes)

find_generated_transcript(tl, codes) == FindTranscript(tl, "generated", codes)

----------------------------------------------------------------------------
(* get_transcript, main.py:48-71 *)

ErrPrefix == <<"E", "r", "r", "o", "r", ":", " ">>

\* variant of main.py:61 that returns an empty text instead of the message
EmptyOutcome == <<>>

\* main.py:61
NoTranscriptOutcome ==
    <<"E", "r", "r", "o", "r", ":", " ", "N", "o", " ", "E", "n", "g", "l",
      "i", "s", "h", " ", "t", "r", "a", "n", "s", "c", "r", "i", "p", "t", " ",
      "f", "o", "u", "n", "d", " ", "f", "o", "r", " ", "t", "h", "i", "s", " ",
      "v", "i", "d", "e", "o", ".">>

\* variant of main.py:70-71 that returns str(e) without the "Error: " prefix
ErrorOutcomeNoPrefix(e) == e.msg

\* main.py:70-71: every exception becomes the text "Error: " + str(e)
ErrorOutcome(e) == ErrPrefix \o e.msg

\* variant of main.py:55-61 with the two find_* calls in the other order
SelectGeneratedFirst(tl) ==
    LET g == find_generated_transcript(tl, LanguageCodes) IN
        IF g # NotFound THEN g
        ELSE find_manually_created_transcript(tl, LanguageCodes)

\* main.py:55-61: manual first, generated as the fallback
SelectTranscript(tl) ==
    LET m == find_manually_created_transcript(tl, LanguageCodes) IN
        IF m # NotFound THEN m
        ELSE find_generated_transcript(tl, LanguageCodes)

\* The whole function.  ret is the returned text; the other fields record the
\* locals and which provider operations were called.
get_transcript(vid, p) ==
    IF p.list_exc # NoExc
    THEN [ret |-> ErrorOutcome(p.list_exc), transcript_list |-> NoList,
          selected |-> NotFound, fragments |-> <<>>,
          listed |-> 1, fetched |-> 0, kind |-> p.list_exc.kind]
    ELSE LET t == SelectTranscript(p.transcripts) IN
        IF t = NotFound
        THEN [ret |-> NoTranscriptOutcome, transcript_list |-> p.transcripts,
              selected |-> NotFound, fragments |-> <<>>,
              listed |-> 1, fetched |-> 0, kind |-> "NoTranscriptAvailable"]
        ELSE IF p.fetch_exc # NoExc
        THEN [ret |-> ErrorOutcome(p.fetch_exc), transcript_list |-> p.transcripts,
              selected |-> t, fragments |-> <<>>,
              listed |-> 1, fetched |-> 1, kind |-> p.fetch_exc.kind]
        ELSE [ret |-> Join(p.fragments), transcript_list |-> p.transcripts,
              selected |-> t, fragments |-> p.fragments,
              listed |-> 1, fetched |-> 1, kind |-> "ok"]

----------------------------------------------------------------------------
(* generate_article, main.py:73-109 *)

OpenAIErrPrefix ==
    <<"O", "p", "e", "n", "A", "I", " ", "E", "r", "r", "o", "r", ":", " ">>

CompletionTexts ==
    { <<"W", "h", "y", " ", "E", "r", "r", "o", "r", "C", "o", "r", "p", " ",
        "S", "h", "a", "r", "e", "s", " ", "R", "o", "s", "e">>,
      <<"D", "r", "a", "f", "t">> }

CompletionExceptions == [kind : {"CompletionError"}, msg : ExcMessages]

\* every way the completion provider can answer one call
CompletionBehaviours ==
    [exc : {NoExc}, text : CompletionTexts]
    \cup [exc : CompletionExceptions, text : {<<>>}]

NoRequest ==
    [model |-> "", system |-> "", user |-> None, temperature |-> "", api_key |-> ""]

\* main.py:99-106
GenerationRequest(transcript_text, key) ==
    [model |-> "gpt-4o", system |-> "system_prompt", user |-> transcript_text,
     temperature |-> "0.7", api_key |-> key]

generate_article(transcript_text, key, c) ==
    IF c.exc = NoExc
    THEN [ret |-> c.text, request |-> GenerationRequest(transcript_text, key),
          kind |-> "ok"]
    ELSE [ret |-> OpenAIErrPrefix \o c.exc.msg,
          request |-> GenerationRequest(transcript_text, key),
          kind |-> c.exc.kind]

----------------------------------------------------------------------------
(* Inputs of a script run *)

U_watch ==
    <<"h", "t", "t", "p", "s", ":", "/", "/", "w", "w", "w", ".", "y", "o", "u",
      "t", "u", "b", "e", ".", "c", "o", "m", "/", "w", "a", "t", "c", "h", "?",
      "v", "=", "a", "b", "c", "D", "E", "F", "g", "h", "i", "1", "2">>

U_short ==
    <<"h", "t", "t", "p", "s", ":", "/", "/", "y", "o", "u", "t", "u", ".", "b",
      "e", "/", "a", "b", "c", "D", "E", "F", "g", "h", "i", "1", "2", "?", "t",
      "=", "3">>

U_attribution ==
    <<"h", "t", "t", "p", "s", ":", "/", "/", "w", "w", "w", ".", "y", "o", "u",
      "t", "u", "b", "e", ".", "c", "o", "m", "/", "a", "t", "t", "r", "i", "b",
      "u", "t", "i", "o", "n", "_", "l", "i", "n", "k", "?", "v", "=", "a", "b",
      "c", "D", "E", "F", "g", "h", "i", "1", "2">>

U_channel ==
    <<"h", "t", "t", "p", "s", ":", "/", "/", "w", "w", "w", ".", "y", "o", "u",
      "t", "u", "b", "e", ".", "c", "o", "m", "/", "c", "h", "a", "n", "n", "e",
      "l", "/", "U", "C", "a", "b", "c", "d", "e", "f", "g", "h", "i", "j", "k",
      "l", "m", "n", "o", "p">>

U_noid ==
    <<"h", "t", "t", "p", "s", ":", "/", "/", "w", "w", "w", ".", "y", "o", "u",
      "t", "u", "b", "e", ".", "c", "o", "m", "/", "w", "a", "t", "c", "h", "?",
      "v", "=", "s", "h", "o", "r", "t">>

\* what the user may have typed into the text input of a request
SessionUrls == {<<>>, U_watch, U_noid, U_channel}

\* pieces URLs are built from when get_video_id is checked on its own
UrlTokens ==
    { <<"v", "=">>, <<"/">>, <<"?">>, <<"a">>,
      <<"a", "b", "c", "D", "E", "F", "g", "h", "i", "1", "2">> }

IdUrls ==
    {Flatten(ts) : ts \in UNION {[1..n -> UrlTokens] : n \in 0..MaxTokens}}
    \cup {U_watch, U_short, U_attribution, U_channel, U_noid}

----------------------------------------------------------------------------
(* The script, main.py:9-149 *)

ErrorMarker == <<"E", "r", "r", "o", "r", ":">>

\* main.py:136
IsErrorText(t) == Contains(ErrorMarker, t)

NoCalls == [extract |-> 0, list |-> 0, fetch |-> 0, completion |-> 0, render |-> 0]

Show(w, body) == ui' = Append(ui, [w |-> w, body |-> body])

\* the page is loaded for the first time: nothing typed, nothing clicked
Init ==
    /\ pc = "dependency_check"
    /\ library \in {"ok", "outdated"}
    /\ secrets \in {"nofile", "nokey", "present"}
    /\ session_url = <<>>
    /\ session_btn = FALSE
    /\ api_key = ""
    /\ youtube_url = None
    /\ generate_btn = FALSE
    /\ video_id = None
    /\ transcript_list = NoList
    /\ selected = NotFound
    /\ fragments = <<>>
    /\ transcript = None
    /\ request = NoRequest
    /\ article_draft = None
    /\ ui = <<>>
    /\ tkind = "none"
    /\ ckind = "none"
    /\ calls = NoCalls

\* main.py:13-26
DependencyCheck ==
    /\ pc = "dependency_check"
    /\ \/ /\ library = "ok"
          /\ pc' = "authentication"
          /\ ui' = ui
       \/ /\ library = "outdated"
          /\ \E pip_ok \in BOOLEAN :
                ui' = ui \o << [w |-> "warning", body |-> Lit("Auto-repairing")],
                               IF pip_ok
                               THEN [w |-> "success", body |-> Lit("Repair complete!")]
                               ELSE [w |-> "error", body |-> Lit("Auto-repair failed")] >>
          /\ pc' = "stopped"
    /\ UNCHANGED <<library, secrets, session_url, session_btn, api_key, youtube_url,
                   generate_btn, video_id, transcript_list, selected, fragments,
                   transcript, request, article_draft, tkind, ckind, calls>>

\* variant of main.py:29-36 without the st.stop() calls
AuthenticationNoStop ==
    /\ pc = "authentication"
    /\ \/ /\ secrets = "present"
          /\ api_key' = "sk-key"
          /\ ui' = ui
       \/ /\ secrets = "nofile"
          /\ Show("error", Lit("Secrets file not found."))
          /\ api_key' = api_key
       \/ /\ secrets = "nokey"
          /\ Show("error", Lit("OPENAI_API_KEY not found in secrets."))
          /\ api_key' = api_key
    /\ pc' = "ui_layout"
    /\ UNCHANGED <<library, secrets, session_url, session_btn, youtube_url,
                   generate_btn, video_id, transcript_list, selected, fragments,
                   transcript, request, article_draft, tkind, ckind, calls>>

\* main.py:29-36
Authentication ==
    /\ pc = "authentication"
    /\ \/ /\ secrets = "present"
          /\ api_key' = "sk-key"
          /\ pc' = "ui_layout"
          /\ ui' = ui
       \/ /\ secrets = "nofile"
          /\ Show("error", Lit("Secrets file not found."))
          /\ pc' = "stopped"
          /\ api_key' = api_key
       \/ /\ secrets = "nokey"
          /\ Show("error", Lit("OPENAI_API_KEY not found in secrets."))
          /\ pc' = "stopped"
          /\ api_key' = api_key
    /\ UNCHANGED <<library, secrets, session_url, session_btn, youtube_url,
                   generate_btn, video_id, transcript_list, selected, fragments,
                   transcript, request, article_draft, tkind, ckind, calls>>

\* main.py:113-121
UiLayout ==
    /\ pc = "ui_layout"
    /\ youtube_url' = session_url
    /\ generate_btn' = session_btn
    /\ pc' = "processing"
    /\ UNCHANGED <<library, secrets, session_url, session_btn, api_key, video_id,
                   transcript_list, selected, fragments, transcript, request,
                   article_draft, ui, tkind, ckind, calls>>

\* main.py:124-131
ExtractIdentifier ==
    /\ pc = "processing"
    /\ \/ /\ ~generate_btn
          /\ pc' = "end"
          /\ UNCHANGED <<video_id, ui, calls>>
       \/ /\ generate_btn
          /\ youtube_url = <<>>
          /\ Show("warning", Lit("Please paste a URL first."))
          /\ pc' = "end"
          /\ UNCHANGED <<video_id, calls>>
       \/ /\ generate_btn
          /\ youtube_url # <<>>
          /\ video_id' = get_video_id(youtube_url)
          /\ calls' = [calls EXCEPT !.extract = @ + 1]
          /\ IF video_id' = None
             THEN /\ Show("error", Lit("Could not extract Video ID. Check the URL format."))
                  /\ pc' = "end"
             ELSE /\ ui' = ui
                  /\ pc' = "fetch_transcript"
    /\ UNCHANGED <<library, secrets, session_url, session_btn, api_key, youtube_url,
                   generate_btn, transcript_list, selected, fragments, transcript,
                   request, article_draft, tkind, ckind>>

\* main.py:133-137, with the whole of get_transcript
FetchTranscript ==
    /\ pc = "fetch_transcript"
    /\ \E p \in ProviderBehaviours :
          LET r == get_transcript(video_id, p) IN
              /\ transcript' = r.ret
              /\ transcript_list' = r.transcript_list
              /\ selected' = r.selected
              /\ fragments' = r.fragments
              /\ tkind' = r.kind
              /\ calls' = [calls EXCEPT !.list = @ + r.listed, !.fetch = @ + r.fetched]
              /\ IF IsErrorText(r.ret)
                 THEN /\ Show("error", r.ret)
                      /\ pc' = "end"
                 ELSE /\ ui' = ui
                      /\ pc' = "generate_article"
    /\ UNCHANGED <<library, secrets, session_url, session_btn, api_key, youtube_url,
                   generate_btn, video_id, request, article_draft, ckind>>

\* main.py:139-140, with the whole of generate_article
GenerateArticle ==
    /\ pc = "generate_article"
    /\ \E c \in CompletionBehaviours :
          LET r == generate_article(transcript, api_key, c) IN
              /\ article_draft' = r.ret
              /\ request' = r.request
              /\ ckind' = r.kind
    /\ calls' = [calls EXCEPT !.completion = @ + 1]
    /\ pc' = "render"
    /\ UNCHANGED <<library, secrets, session_url, session_btn, api_key, youtube_url,
                   generate_btn, video_id, transcript_list, selected, fragments,
                   transcript, ui, tkind>>

\* main.py:142-149
RenderDraft ==
    /\ pc = "render"
    /\ ui' = ui \o << [w |-> "success", body |-> Lit("Draft ready!")],
                      [w |-> "subheader", body |-> Lit("Your Article Draft")],
                      [w |-> "markdown", body |-> article_draft],
                      [w |-> "download_button:article_draft.md", body |-> article_draft],
                      [w |-> "text", body |-> transcript] >>
    /\ calls' = [calls EXCEPT !.render = @ + 1]
    /\ pc' = "end"
    /\ UNCHANGED <<library, secrets, session_url, session_btn, api_key, youtube_url,
                   generate_btn, video_id, transcript_list, selected, fragments,
                   transcript, request, article_draft, tkind, ckind>>

\* Streamlit runs the script again, top to bottom, on the next interaction
Rerun ==
    /\ pc \in {"end", "stopped"}
    /\ pc' = "dependency_check"
    /\ library' \in {"ok", "outdated"}
    /\ secrets' \in {"nofile", "nokey", "present"}
    /\ session_url' \in SessionUrls
    /\ session_btn' \in BOOLEAN
    /\ api_key' = ""
    /\ youtube_url' = None
    /\ generate_btn' = FALSE
    /\ video_id' = None
    /\ transcript_list' = NoList
    /\ selected' = NotFound
    /\ fragments' = <<>>
    /\ transcript' = None
    /\ request' = NoRequest
    /\ article_draft' = None
    /\ ui' = <<>>
    /\ tkind' = "none"
    /\ ckind' = "none"
    /\ calls' = NoCalls

Next ==
    \/ DependencyCheck
    \/ Authentication
    \/ UiLayout
    \/ ExtractIdentifier
    \/ FetchTranscript
    \/ GenerateArticle
    \/ RenderDraft
    \/ Rerun

Spec == Init /\ [][Next]_vars

----------------------------------------------------------------------------
(* get_video_id on its own: the URL is drawn from IdUrls and extracted once *)

InitId ==
    /\ pc = "processing"
    /\ library = "ok"
    /\ secrets = "present"
    /\ session_url \in IdUrls
    /\ session_btn = TRUE
    /\ api_key = "sk-key"
    /\ youtube_url = session_url
    /\ generate_btn = TRUE
    /\ video_id = None
    /\ transcript_list = NoList
    /\ selected = NotFound
    /\ fragments = <<>>
    /\ transcript = None
    /\ request = NoRequest
    /\ article_draft = None
    /\ ui = <<>>
    /\ tkind = "none"
    /\ ckind = "none"
    /\ calls = NoCalls

NextId == ExtractIdentifier

SpecId == InitId /\ [][NextId]_vars

----------------------------------------------------------------------------
(* Vocabulary of the properties *)

TranscriptFailureKinds == {"NoTranscriptAvailable", "ProviderError", "IdentifierInvalid"}

TranscriptFailed == tkind \in TranscriptFailureKinds

\* the run shows "Draft ready!", renders a text as the article or offers the download
DraftShown ==
    \E i \in 1..Len(ui) :
        \/ ui[i].w \in {"markdown", "download_button:article_draft.md"}
        \/ ui[i] = [w |-> "success", body |-> Lit("Draft ready!")]

ErrorShown == \E i \in 1..Len(ui) : ui[i].w = "error"

EnglishLocales == {"en", "en-AU", "en-GB", "en-US"}

LocaleRank(l) ==
    CASE l = "en" -> 1 [] l = "en-AU" -> 2 [] l = "en-GB" -> 3 [] l = "en-US" -> 4

Listed == calls.list = 1 /\ transcript_list # NoList

\* the text a failure of kind k with provider message m is returned as
FailureText(k, m) ==
    IF k = "NoTranscriptAvailable" THEN NoTranscriptOutcome
    ELSE ErrorOutcome([kind |-> k, msg |-> m])

\* url has "v=" at i, followed by IdLen characters of the identifier alphabet
VParamAt(url, i) ==
    /\ i + 1 + IdLen <= Len(url)
    /\ url[i] = "v" /\ url[i + 1] = "="
    /\ \A j \in (i + 2)..(i + 1 + IdLen) : url[j] \in IdChars

\* an identifier of exactly IdLen characters starts at g: the token ends there
ExactIdAt(url, g) ==
    /\ g + IdLen - 1 <= Len(url)
    /\ \A j \in g..(g + IdLen - 1) : url[j] \in IdChars
    /\ g + IdLen <= Len(url) => url[g + IdLen] \notin IdChars

\* url holds an identifier: the value of a v= parameter, or a path segment
HasIdentifier(url) ==
    \E i \in 1..Len(url) :
        \/ i + 1 <= Len(url) /\ url[i] = "v" /\ url[i + 1] = "=" /\ ExactIdAt(url, i + 2)
        \/ url[i] = "/" /\ ExactIdAt(url, i + 1)

----------------------------------------------------------------------------
(* Properties *)

\* C1: in a run whose transcript step failed (no English transcript, provider
\* exception, rejected identifier) the completion provider is never called,
\* the script never reaches the generate or render step, and no draft or
\* download is rendered.
C1_FailureShortCircuits ==
    TranscriptFailed =>
        /\ calls.completion = 0
        /\ request = NoRequest
        /\ pc \notin {"generate_article", "render"}
        /\ ~DraftShown

C1_Witness ==
    /\ tkind = "ProviderError"
    /\ calls.fetch = 1
    /\ pc = "end"
    /\ ErrorShown

\* C2: when the completion call raised, the run shows no "Draft ready!", renders
\* no text as the article and offers no download, and it ends with an error shown.
C2_CompletionErrorReported ==
    ckind = "CompletionError" =>
        /\ ~DraftShown
        /\ pc = "end" => ErrorShown

\* C3: success is decided by the kind of the outcome: when the provider returned
\* the fragments, the run calls the completion provider with the joined text
\* whatever the fragments say, and a successful completion is shown as the draft
\* whatever its text says.
C3_OutcomeKindDecides ==
    (tkind = "ok" /\ pc = "end") =>
        /\ calls.completion = 1
        /\ request.user = Join(fragments)
        /\ ckind = "ok" => DraftShown

\* C4: a failed get_transcript returns an outcome from which its kind can be
\* told: no failure of another kind, with whatever message, returns the same.
C4_FailureKindsDistinct ==
    TranscriptFailed =>
        \A k \in TranscriptFailureKinds, m \in ExcMessages :
            FailureText(k, m) = transcript => k = tkind

\* C5: when the listed transcripts hold no manual and no generated transcript in
\* en, en-AU, en-GB or en-US, get_transcript ends in the no-transcript failure:
\* the returned text is not empty and is taken as an error by the caller, fetch
\* is never called and the completion provider is not called.
C5_NoEnglishFails ==
    (Listed /\ \A t \in transcript_list : t.lang \notin EnglishLocales) =>
        /\ tkind = "NoTranscriptAvailable"
        /\ transcript # <<>>
        /\ IsErrorText(transcript)
        /\ selected = NotFound
        /\ calls.fetch = 0
        /\ calls.completion = 0
        /\ ~DraftShown

C5_Witness ==
    /\ Listed
    /\ transcript_list = {[kind |-> "generated", lang |-> "de"], [kind |-> "manual", lang |-> "de"]}
    /\ pc = "end"
    /\ ErrorShown

\* C6: a manual transcript in one of the four locales is selected whenever one
\* is listed, even if a generated one is listed in an earlier locale; a
\* generated one is selected only when no manual one is listed in them; and of
\* the chosen kind the earliest locale in en, en-AU, en-GB, en-US is taken.
C6_ManualFirstThenLocaleOrder ==
    Listed =>
        /\ (\E t \in transcript_list : t.kind = "manual" /\ t.lang \in EnglishLocales)
              => selected.kind = "manual"
        /\ selected.kind = "generated"
              => \A t \in transcript_list : t.kind = "manual" => t.lang \notin EnglishLocales
        /\ (\E t \in transcript_list : t.lang \in EnglishLocales) => selected # NotFound
        /\ selected # NotFound =>
              /\ selected \in transcript_list
              /\ selected.lang \in EnglishLocales
              /\ \A t \in transcript_list :
                    (t.kind = selected.kind /\ t.lang \in EnglishLocales)
                        => LocaleRank(selected.lang) <= LocaleRank(t.lang)

C6_Witness ==
    /\ Listed
    /\ transcript_list = {[kind |-> "generated", lang |-> "en"], [kind |-> "manual", lang |-> "en-US"]}
    /\ selected = [kind |-> "manual", lang |-> "en-US"]
    /\ calls.fetch = 1

\* C7: for a URL that contains v= followed by 11 identifier characters,
\* get_video_id returns those 11 characters (of one such v= parameter).
C7_VParamExtracted ==
    calls.extract = 1 =>
        LET at == {i \in 1..Len(youtube_url) : VParamAt(youtube_url, i)} IN
            at # {} => \E i \in at : video_id = SubSeq(youtube_url, i + 2, i + 1 + IdLen)

\* C8: for an input that holds no identifier (no v= value and no path segment
\* of exactly 11 identifier characters) get_video_id returns None.
C8_NoIdentifierNotFound ==
    (calls.extract = 1 /\ ~HasIdentifier(youtube_url)) => video_id = None

\* C9: in a script run with the API key missing from the secrets (no file, or
\* no OPENAI_API_KEY in it) the run halts at startup: get_video_id, the
\* transcript provider and the completion provider are never invoked.
C9_MissingKeyHalts ==
    secrets # "present" =>
        /\ calls = NoCalls
        /\ pc \in {"dependency_check", "authentication", "stopped"}
        /\ video_id = None /\ transcript = None /\ request = NoRequest

C9_Witness ==
    /\ secrets # "present"
    /\ library = "ok"
    /\ session_btn
    /\ session_url = U_watch
    /\ pc = "stopped"
    /\ ErrorShown

\* C10: the stages of a run execute in the order extract, fetch transcript,
\* generate, render, each at most once and each only after the one before it
\* succeeded; an empty URL or a not-found extraction contacts no provider.
C10_StagesInOrder ==
    /\ \A s \in DOMAIN calls : calls[s] <= 1
    /\ calls.list = 1 => (calls.extract = 1 /\ video_id # None)
    /\ calls.fetch = 1 => calls.list = 1
    /\ calls.completion = 1 => (calls.list = 1 /\ tkind = "ok")
    /\ calls.render = 1 => (calls.completion = 1 /\ ckind = "ok")
    /\ (youtube_url = <<>> \/ youtube_url = None \/ video_id = None)
          => (calls.list = 0 /\ calls.completion = 0)

====
